---- MODULE Spec2Model ----
(***************************************************************************)
(* A model of the guide crawler (src/crawler.py): the URL resolver         *)
(* make_absolute_url and the extraction function parse_html, over an       *)
(* abstract document tree.                                                 *)
(*                                                                         *)
(* Strings whose characters the code inspects (titles, class and alt       *)
(* attributes) are sequences of one-character strings.  Body texts, of     *)
(* which the code inspects only the length, the leading word and the       *)
(* position of keywords, are records of those facts.  URLs are the         *)
(* components urllib.parse.urlsplit gives: scheme, netloc and the path     *)
(* split at "/".                                                           *)
(***************************************************************************)
EXTENDS Integers, Sequences, FiniteSets, TLC

VARIABLES
    pc,         \* position of the caller: "idle", "parsed", "resolved", "extracted"
    doc,        \* html_content of the current parse_html call, as a document tree
    base,       \* base_url of the current call
    result,     \* what the call returned (or that it raised)
    url,        \* url argument of the current make_absolute_url call
    profile,    \* required title prefix of the current extract call
    memo,       \* an earlier parse_html call, <<doc, base, result>>, kept to compare
    headers,    \* headers of the current fetch_page call
    delay,      \* delay drawn by the current fetch_page call (0: none yet)
    response,   \* what requests.get gave the current fetch_page call
    log,        \* the calls made to the world so far: uniform, sleep, get, fetch_page
    idx,        \* position of main's loop in target_urls (0: main is not running)
    raw_results,\* raw_results of main
    saved,      \* the arguments of the validate_and_save calls made so far
    tool_list,  \* tool_list of the current locate_tools call
    reply       \* what the download and the model gave the current locate_tools call

\* The state of parse_html's callers, and the state of the other functions.
parseVars == <<pc, doc, base, result, url, profile, memo>>
fetchVars == <<headers, delay, response, log>>
mainVars == <<idx, raw_results, saved>>
locateVars == <<tool_list, reply>>

vars == <<pc, doc, base, result, url, profile, memo, headers, delay, response,
          log, idx, raw_results, saved, tool_list, reply>>

\* ------------------------------------------------------------------ bounds

\* At most MaxImgs images in a container or body, MaxParas paragraphs in a
\* container, MaxSections heading-delimited sections in a body, MaxElems
\* title-bearing (author-bearing) elements in a document.
MaxImgs == 2
MaxParas == 2
MaxSections == 3
MaxElems == 2

SeqsUpTo(S, n) == UNION {[1..k -> S] : k \in 0..n}

\* ------------------------------------------------------------- strings

\* str.lower() on the characters the enumerated strings use.
LowerChar(c) ==
    CASE c = "H" -> "h" [] c = "O" -> "o" [] c = "W" -> "w" [] c = "T" -> "t"
      [] c = "B" -> "b" [] c = "U" -> "u" [] c = "L" -> "l" [] c = "I" -> "i"
      [] c = "S" -> "s" [] c = "E" -> "e" [] c = "P" -> "p" [] c = "N" -> "n"
      [] c = "R" -> "r" [] c = "V" -> "v"
      [] OTHER -> c

Lower(s) == [i \in 1..Len(s) |-> LowerChar(s[i])]

\* str.startswith(p)
StartsWith(s, p) == Len(p) <= Len(s) /\ SubSeq(s, 1, Len(p)) = p

\* p in s
Contains(s, p) ==
    \E i \in 0..(Len(s) - Len(p)) : SubSeq(s, i + 1, i + Len(p)) = p

IsSpace(c) == c = " "

\* str.strip(): drop leading and trailing whitespace.
RECURSIVE LStrip(_)
LStrip(s) == IF s # <<>> /\ IsSpace(Head(s)) THEN LStrip(Tail(s)) ELSE s

RECURSIVE RStrip(_)
RStrip(s) ==
    IF s # <<>> /\ IsSpace(s[Len(s)]) THEN RStrip(SubSeq(s, 1, Len(s) - 1)) ELSE s

Strip(s) == RStrip(LStrip(s))

\* ---------------------------------------------------------------- URLs

\* The outcome of a URL operation that raised ValueError (no URL has this scheme).
ValueError == [scheme |-> "!ValueError", netloc |-> "", path |-> <<>>]

\* A netloc with an unbalanced "[": urlsplit raises ValueError("Invalid IPv6 URL").
BadNetloc == "[x"

EmptyUrl == [scheme |-> "", netloc |-> "", path |-> <<"">>]

\* urllib.parse.uses_relative / uses_netloc, restricted to the schemes used here.
UsesRelative == {"", "http", "https", "ftp"}
UsesNetloc == {"", "http", "https", "ftp"}

\* urlparse(url): the components, or ValueError for an invalid netloc.
UrlParse(u) == IF u.netloc = BadNetloc THEN ValueError ELSE u

\* segments[1:-1] = filter(None, segments[1:-1])
DropEmptyMiddle(segs) ==
    IF Len(segs) <= 2 THEN segs
    ELSE <<segs[1]>>
         \o SelectSeq(SubSeq(segs, 2, Len(segs) - 1), LAMBDA x : x # "")
         \o <<segs[Len(segs)]>>

\* The loop of urljoin that removes dot segments.
RECURSIVE ResolveDots(_, _)
ResolveDots(segs, acc) ==
    IF segs = <<>> THEN acc
    ELSE LET seg == Head(segs) IN
         IF seg = ".."
         THEN ResolveDots(Tail(segs),
                          IF acc = <<>> THEN acc ELSE SubSeq(acc, 1, Len(acc) - 1))
         ELSE IF seg = "." THEN ResolveDots(Tail(segs), acc)
         ELSE ResolveDots(Tail(segs), Append(acc, seg))

\* urllib.parse.urlunsplit: behind a netloc a path is written with a leading "/".
UrlUnsplit(scheme, netloc, path) ==
    [scheme |-> scheme, netloc |-> netloc,
     path |-> IF netloc # "" /\ path # <<"">> /\ path[1] # ""
              THEN <<"">> \o path ELSE path]

\* urllib.parse.urljoin(base, url) for a non-empty url.
UrlJoin(b, u) ==
    LET scheme == IF u.scheme = "" THEN b.scheme ELSE u.scheme IN
    IF b = EmptyUrl THEN u
    ELSE IF scheme # b.scheme \/ scheme \notin UsesRelative THEN u
    ELSE IF scheme \in UsesNetloc /\ u.netloc # ""
    THEN UrlUnsplit(scheme, u.netloc, u.path)
    ELSE LET netloc == IF scheme \in UsesNetloc THEN b.netloc ELSE u.netloc IN
         IF u.path = <<"">>
         THEN UrlUnsplit(scheme, netloc, b.path)
         ELSE LET bparts == IF b.path[Len(b.path)] # ""
                            THEN SubSeq(b.path, 1, Len(b.path) - 1)
                            ELSE b.path
                  segs == IF u.path[1] = "" /\ Len(u.path) > 1
                          THEN u.path
                          ELSE DropEmptyMiddle(bparts \o u.path)
                  res0 == ResolveDots(segs, <<>>)
                  res1 == IF segs[Len(segs)] \in {".", ".."}
                          THEN Append(res0, "") ELSE res0
                  path == IF res1 = <<>> \/ res1 = <<"">> THEN <<"", "">> ELSE res1
              IN UrlUnsplit(scheme, netloc, path)

\* A variant that joins without looking at the URL's own network location.
make_absolute_url_always_joins(u, b) ==
    IF u = EmptyUrl THEN EmptyUrl
    ELSE IF UrlParse(u) = ValueError THEN ValueError
    ELSE [scheme |-> b.scheme, netloc |-> b.netloc,
          path |-> IF u.path[1] = "" THEN u.path ELSE <<"">> \o u.path]

\* make_absolute_url(url, base_url): "" for an empty url, the url itself when it
\* has a network location, urljoin otherwise; ValueError when urlparse raises.
make_absolute_url(u, b) ==
    IF u = EmptyUrl THEN EmptyUrl
    ELSE IF UrlParse(u) = ValueError THEN ValueError
    ELSE IF UrlParse(u).netloc # "" THEN u
    ELSE UrlJoin(b, u)

\* url.startswith(('http://', 'https://')): the string of a URL begins with
\* scheme "://" exactly when its scheme is written in lower case and a netloc
\* (or an empty one written as "//") follows; the URLs here write "//" only
\* before a non-empty netloc.
StartsWithHttp(u) == u.scheme \in {"http", "https"} /\ u.netloc # ""

\* ---------------------------------------------------------- body texts

\* A stripped text: len characters; head, the word it starts with, as written
\* (its characters up to the first space); kw, where the first of the
\* container exclusion patterns (line 317) ends in the lower-cased text (0: none);
\* fkw, whether a fallback exclusion keyword (line 414) lies in the first 100
\* characters; act, whether an action word (line 419) occurs.
Text(len, head, kw, fkw, act) ==
    [len |-> len, head |-> head, kw |-> kw, fkw |-> fkw, act |-> act]

EmptyText == Text(0, <<>>, 0, FALSE, FALSE)

\* ' '.join([a, b]) of two non-empty texts.
JoinText(a, b) ==
    [len |-> a.len + 1 + b.len,
     head |-> a.head,
     kw |-> IF a.kw > 0 THEN a.kw ELSE IF b.kw > 0 THEN a.len + 1 + b.kw ELSE 0,
     fkw |-> a.fkw \/ (b.fkw /\ a.len < 100),
     act |-> a.act \/ b.act]

\* ' '.join(texts)
RECURSIVE JoinAll(_)
JoinAll(ts) ==
    IF ts = <<>> THEN EmptyText
    ELSE IF Len(ts) = 1 THEN ts[1]
    ELSE JoinText(ts[1], JoinAll(Tail(ts)))

NonEmptyTexts(ts) == SelectSeq(ts, LAMBDA t : t.len > 0)

\* ------------------------------------------------------ title and author

UnknownTitle == <<"U","n","k","n","o","w","n"," ","T","i","t","l","e">>
UnknownAuthor == <<"U","n","k","n","o","w","n"," ","A","u","t","h","o","r">>

\* title_selectors (lines 154-160): tag and class ("" for no class filter).
title_selectors ==
    << [tag |-> "h1", cls |-> "header-title"],
       [tag |-> "h1", cls |-> "title"],
       [tag |-> "h1", cls |-> ""],
       [tag |-> "meta", cls |-> ""],
       [tag |-> "title", cls |-> ""] >>

\* soup.find(tag, attrs) over the title-bearing elements, in document order:
\* the indices of the elements that match.
TitleMatches(elems, sel) ==
    {i \in 1..Len(elems) :
        elems[i].tag = sel.tag /\ (sel.cls = "" \/ elems[i].cls = sel.cls)}

Min(S) == CHOOSE x \in S : \A y \in S : x <= y

\* A variant that stops at the first selector that matches an element.
RECURSIVE TitleLoop_stops_at_match(_, _, _)
TitleLoop_stops_at_match(elems, i, title) ==
    IF i > Len(title_selectors) THEN title
    ELSE LET m == TitleMatches(elems, title_selectors[i]) IN
         IF m = {} THEN TitleLoop_stops_at_match(elems, i + 1, title)
         ELSE Strip(elems[Min(m)].text)

\* The title loop (lines 162-170) from selector i on; title is <<>> for None.
RECURSIVE TitleLoop(_, _, _)
TitleLoop(elems, i, title) ==
    IF i > Len(title_selectors) THEN title
    ELSE LET m == TitleMatches(elems, title_selectors[i]) IN
         IF m = {} THEN TitleLoop(elems, i + 1, title)
         ELSE LET t == Strip(elems[Min(m)].text) IN
              IF t # <<>> /\ t # UnknownTitle THEN t
              ELSE TitleLoop(elems, i + 1, t)

\* Lines 153-174.
ExtractTitle(d) ==
    LET t == TitleLoop(d.titleElems, 1, <<>>) IN
    IF t = <<>> \/ t = UnknownTitle THEN UnknownTitle ELSE t

NumAuthorSelectors == 5

\* The author loop (lines 186-194); an author element carries the index of the
\* author_selectors entry that finds it.
RECURSIVE AuthorLoop(_, _, _)
AuthorLoop(elems, i, author) ==
    IF i > NumAuthorSelectors THEN author
    ELSE LET m == {k \in 1..Len(elems) : elems[k].sel = i} IN
         IF m = {} THEN AuthorLoop(elems, i + 1, author)
         ELSE LET t == Strip(elems[Min(m)].text) IN
              IF t # <<>> THEN t ELSE AuthorLoop(elems, i + 1, t)

\* A variant without the default of lines 196-197.
ExtractAuthor_no_default(d) == AuthorLoop(d.authorElems, 1, <<>>)

\* Lines 177-198.
ExtractAuthor(d) ==
    LET a == AuthorLoop(d.authorElems, 1, <<>>) IN
    IF a = <<>> THEN UnknownAuthor ELSE a

\* ---------------------------------------------------------------- supplies

NumSuppliesSelectors == 5

\* The first supplies container by selector priority (lines 210-214):
\* its index in d.supplySections, 0 when none is found.
SuppliesSection(d) ==
    LET found == {s \in 1..NumSuppliesSelectors :
                     \E k \in 1..Len(d.supplySections) : d.supplySections[k].sel = s}
    IN IF found = {} THEN 0
       ELSE Min({k \in 1..Len(d.supplySections) : d.supplySections[k].sel = Min(found)})

\* Lines 216-220: the non-empty stripped texts of the section's list items.
ExtractSupplies(d) ==
    LET k == SuppliesSection(d) IN
    IF k = 0 THEN <<>>
    ELSE SelectSeq([i \in 1..Len(d.supplySections[k].items) |->
                        Strip(d.supplySections[k].items[i])],
                   LAMBDA t : t # <<>>)

\* ------------------------------------------------------- step containers

\* css_selectors (lines 232-241), by position.
NumCssSelectors == 8
\* step_selectors (lines 251-258), by position.
NumAttrSelectors == 6

\* Whether an element of the given markup matches css_selectors[i].
\* "div.Step" carries the class in upper case: only the lower-casing flexible
\* match (lines 268-274) sees it.
CssMatches(kind, i) ==
    CASE kind = "div.step" -> i \in {1, 7}
      [] kind = "article.step" -> i \in {2, 7}
      [] kind = "section.step" -> i \in {3, 7}
      [] kind = "div.step-body" -> i \in {4, 7}
      [] kind = "div[data-step]" -> i = 5
      [] kind = "li.step" -> i \in {6, 7}
      [] kind = "span.substep" -> i = 7
      [] kind = "div#step1" -> i = 8
      [] OTHER -> FALSE

\* soup.find_all(tag, attrs) of step_selectors[j]: the same six patterns.
AttrMatches(kind, j) == j <= NumAttrSelectors /\ CssMatches(kind, j) /\ j # 7

\* Lines 268-274: div, article or section with "step" in a lower-cased class or id.
FlexMatches(kind) ==
    kind \in {"div.step", "article.step", "section.step", "div.step-body",
              "div#step1", "div.Step"}

SelectBy(cs, P(_)) == SelectSeq(cs, LAMBDA c : P(c.kind))

\* The first position from i on whose selector matches some element, 0 if none.
RECURSIVE FirstCss(_, _)
FirstCss(cs, i) ==
    IF i > NumCssSelectors THEN 0
    ELSE IF \E k \in 1..Len(cs) : CssMatches(cs[k].kind, i) THEN i
    ELSE FirstCss(cs, i + 1)

RECURSIVE FirstAttr(_, _)
FirstAttr(cs, j) ==
    IF j > NumAttrSelectors THEN 0
    ELSE IF \E k \in 1..Len(cs) : AttrMatches(cs[k].kind, j) THEN j
    ELSE FirstAttr(cs, j + 1)

\* step_containers after lines 243-276.
StepContainers(d) ==
    LET cs == d.containers
        i == FirstCss(cs, 1)
        j == FirstAttr(cs, 1)
    IN IF i # 0 THEN SelectBy(cs, LAMBDA k : CssMatches(k, i))
       ELSE IF j # 0 THEN SelectBy(cs, LAMBDA k : AttrMatches(k, j))
       ELSE SelectBy(cs, FlexMatches)

\* ------------------------------------------------------- container text

\* Lengths the code compares texts with.
MinBodyLen == 10
MinAllTextLen == 20
ExcludeWindow == 50
MinStepLen == 15

\* text_selectors (lines 282-291): positions 1..6 find a body element, 7 is ('p', {}).
NumBodySelectors == 6

\* step.find_all('p'): a body element found by ('p', {'class': 'step-body'}),
\* position 5, is a paragraph too.
Paragraphs(c) ==
    LET pb == SelectSeq(c.bodies, LAMBDA e : e.sel = 5)
    IN [k \in 1..Len(pb) |-> pb[k].text] \o c.paras

\* Lines 296-299: the paragraphs of the container longer than 10, joined by ' '.
CombinedParagraphs(c) ==
    JoinAll(SelectSeq(Paragraphs(c), LAMBDA t : t.len > MinBodyLen))

\* The selector loop (lines 293-308) from position i on; text is EmptyText for
\* None and for "".  A body element found with a short text leaves that text in
\* `text` and the loop goes on.
RECURSIVE TextLoop(_, _, _)
TextLoop(c, i, text) ==
    IF i > NumBodySelectors
    THEN IF Paragraphs(c) # <<>> /\ CombinedParagraphs(c).len > 0
         THEN CombinedParagraphs(c)
         ELSE text
    ELSE LET m == {k \in 1..Len(c.bodies) : c.bodies[k].sel = i} IN
         IF m = {} THEN TextLoop(c, i + 1, text)
         ELSE LET t == c.bodies[Min(m)].text IN
              IF t.len > MinBodyLen THEN t ELSE TextLoop(c, i + 1, t)

\* step.get_text(separator=' ', strip=True): every non-empty string of the
\* container, in document order, joined by ' '.
AllText(c) ==
    JoinAll(NonEmptyTexts(<<c.other>>
                          \o [k \in 1..Len(c.bodies) |-> c.bodies[k].text]
                          \o c.paras))

\* Lines 311-319.
FullTextStrategy(c, text) ==
    IF text.len > 0 THEN text
    ELSE LET all == AllText(c) IN
         IF all.len > MinAllTextLen /\ ~(all.kw > 0 /\ all.kw <= ExcludeWindow)
         THEN all ELSE text

\* The chosen body text of a container (lines 281-319).
ContainerText(c) == FullTextStrategy(c, TextLoop(c, 1, EmptyText))

\* The prefixes of line 325.
SkipPrefixes ==
    {<<"s","t","e","p">>, <<"n","e","x","t">>,
     <<"p","r","e","v","i","o","u","s">>, <<"s","h","a","r","e">>}

\* text.lower().startswith(('step', 'next', 'previous', 'share')), line 325.
HasSkipPrefix(text) == \E p \in SkipPrefixes : StartsWith(Lower(text.head), p)

\* A variant of the filter that accepts texts of exactly the threshold length.
AcceptStep_at_threshold(text) ==
    text.len >= MinStepLen /\ ~HasSkipPrefix(text)

\* A variant of the filter that compares the prefixes as written.
AcceptStep_case_sensitive(text) ==
    text.len > MinStepLen
    /\ ~\E p \in SkipPrefixes : StartsWith(text.head, p)

\* Lines 322-325: text is kept as a step.
AcceptStep(text) ==
    text.len > MinStepLen /\ ~HasSkipPrefix(text)

\* ------------------------------------------------------------------ images

K_icon == <<"i","c","o","n">>
K_logo == <<"l","o","g","o">>
K_avatar == <<"a","v","a","t","a","r">>
K_button == <<"b","u","t","t","o","n">>
K_ad == <<"a","d">>

\* The skip lists of line 334 and of line 429.
ContainerSkip == {K_icon, K_logo, K_avatar, K_button}
BodySkip == {K_icon, K_logo, K_avatar, K_button, K_ad}

\* A variant that looks at the alt text only.
IsDecorative_alt_only(img, skips) ==
    \E k \in skips : Contains(Lower(img.alt), k)

\* Lines 332-334 / 427-429.
IsDecorative(img, skips) ==
    \E k \in skips : Contains(Lower(img.cls), k) \/ Contains(Lower(img.alt), k)

\* a or b, for attribute values ("" and a missing attribute are both falsy).
OrUrl(a, b) == IF a # EmptyUrl THEN a ELSE b

\* Lines 338-342.
ContainerSrc(img) ==
    OrUrl(img.src, OrUrl(img.dataSrc, OrUrl(img.dataLazy,
          OrUrl(img.dataOrig, img.dataUrl))))

\* Lines 432-435.
BodySrc(img) ==
    OrUrl(img.src, OrUrl(img.dataSrc, OrUrl(img.dataLazy, img.dataOrig)))

MinImageDim == 50

NoDim == [kind |-> "absent", val |-> 0]

\* Lines 349-356: both dimensions given, both parse, one below 50.
TooSmall(img) ==
    /\ img.width.kind # "absent" /\ img.height.kind # "absent"
    /\ \/ img.width.kind = "int" /\ img.width.val < MinImageDim
       \/ img.width.kind = "int" /\ img.height.kind = "int"
          /\ img.height.val < MinImageDim

InSeq(x, s) == \E i \in 1..Len(s) : s[i] = x

\* absolute_url in image_urls (lines 347, 438).
SeenUrl(u, urls) == InSeq(u, urls)

\* The image loop of one container (lines 329-357) over imgs, from the
\* accumulator acc = [urls, raised].
RECURSIVE ContainerImages(_, _, _)
ContainerImages(imgs, b, acc) ==
    IF imgs = <<>> \/ acc.raised THEN acc
    ELSE LET img == Head(imgs)
             src == ContainerSrc(img)
             abs == make_absolute_url(src, b)
         IN IF IsDecorative(img, ContainerSkip) \/ src = EmptyUrl
            THEN ContainerImages(Tail(imgs), b, acc)
            ELSE IF abs = ValueError
            THEN [acc EXCEPT !.raised = TRUE]
            ELSE IF abs = EmptyUrl \/ SeenUrl(abs, acc.urls) \/ TooSmall(img)
            THEN ContainerImages(Tail(imgs), b, acc)
            ELSE ContainerImages(Tail(imgs), b,
                                 [acc EXCEPT !.urls = Append(@, abs)])

\* The image loop of the fallback branch (lines 425-439).
RECURSIVE BodyImages(_, _, _)
BodyImages(imgs, b, acc) ==
    IF imgs = <<>> \/ acc.raised THEN acc
    ELSE LET img == Head(imgs)
             src == BodySrc(img)
             abs == make_absolute_url(src, b)
         IN IF IsDecorative(img, BodySkip) \/ src = EmptyUrl
            THEN BodyImages(Tail(imgs), b, acc)
            ELSE IF abs = ValueError
            THEN [acc EXCEPT !.raised = TRUE]
            ELSE IF abs = EmptyUrl \/ SeenUrl(abs, acc.urls)
            THEN BodyImages(Tail(imgs), b, acc)
            ELSE BodyImages(Tail(imgs), b, [acc EXCEPT !.urls = Append(@, abs)])

\* The loop over the step containers (lines 279-357); acc = [steps, urls, raised].
RECURSIVE ContainerMode(_, _, _)
ContainerMode(cs, b, acc) ==
    IF cs = <<>> \/ acc.raised THEN acc
    ELSE LET c == Head(cs)
             text == ContainerText(c)
             steps == IF text.len > 0 /\ AcceptStep(text)
                      THEN Append(acc.steps, text) ELSE acc.steps
             im == ContainerImages(c.imgs, b,
                                   [urls |-> acc.urls, raised |-> FALSE])
         IN ContainerMode(Tail(cs), b,
                          [steps |-> steps, urls |-> im.urls, raised |-> im.raised])

\* ---------------------------------------------------------------- fallback

MinSegmentTextLen == 15
MinSegmentLen == 20
MinFallbackParaLen == 30
LongParaLen == 100

HeaderTags == {"h2", "h3", "h4"}

\* A variant that looks for second-level headings only.
IsStepHeader_h2_only(n) == n.tag = "h2" /\ n.label \in {"step", "digit"}

\* The string= test of line 378 on a heading: its text contains "step" or is a
\* number.
IsStepHeader(n) == n.tag \in HeaderTags /\ n.label \in {"step", "digit"}

\* A variant of the sibling loop that no heading ends.
RECURSIVE SegmentContent_to_end(_, _)
SegmentContent_to_end(nodes, content) ==
    IF nodes = <<>> THEN content
    ELSE LET n == Head(nodes) IN
         IF n.tag = "str" \/ (n.tag \in {"p", "div", "section"}
                              /\ n.text.len > MinSegmentTextLen)
         THEN SegmentContent_to_end(Tail(nodes),
                                    IF n.text.len > 0 THEN Append(content, n.text)
                                    ELSE content)
         ELSE SegmentContent_to_end(Tail(nodes), content)

\* The sibling loop of one header (lines 385-399) over the nodes that follow it.
RECURSIVE SegmentContent(_, _)
SegmentContent(nodes, content) ==
    IF nodes = <<>> THEN content
    ELSE LET n == Head(nodes) IN
         IF n.tag = "str"
         THEN SegmentContent(Tail(nodes),
                             IF n.text.len > 0 THEN Append(content, n.text)
                             ELSE content)
         ELSE IF n.tag \in HeaderTags THEN content
         ELSE IF n.tag \in {"p", "div", "section"} /\ n.text.len > MinSegmentTextLen
         THEN SegmentContent(Tail(nodes), Append(content, n.text))
         ELSE SegmentContent(Tail(nodes), content)

\* Lines 380-404: one step per step header whose segment is long enough.
RECURSIVE HeaderSteps(_, _, _)
HeaderSteps(nodes, i, steps) ==
    IF i > Len(nodes) THEN steps
    ELSE IF ~IsStepHeader(nodes[i]) THEN HeaderSteps(nodes, i + 1, steps)
    ELSE LET content == SegmentContent(SubSeq(nodes, i + 1, Len(nodes)), <<>>)
             combined == JoinAll(content)
         IN HeaderSteps(nodes, i + 1,
                        IF content # <<>> /\ combined.len > MinSegmentLen
                        THEN Append(steps, combined) ELSE steps)

\* Lines 410-422: a paragraph of the body kept as a step.
AcceptParagraph(t) ==
    /\ t.len > MinFallbackParaLen
    /\ ~t.fkw
    /\ (t.act \/ t.len > LongParaLen)

\* Lines 407-422.
ParagraphSteps(nodes) ==
    LET ps == SelectSeq(nodes, LAMBDA n : n.tag = "p")
    IN SelectSeq([k \in 1..Len(ps) |-> ps[k].text], AcceptParagraph)

\* The else branch (lines 358-439); acc = [steps, urls, raised].  d.body.found
\* says whether one of body_selectors (lines 361-367) finds an element; nodes
\* and imgs are the content of that element, or of the page when none is found.
Fallback(d, b, acc) ==
    IF ~d.body.found THEN acc
    ELSE LET hs == HeaderSteps(d.body.nodes, 1, acc.steps)
             steps == IF hs = <<>> THEN ParagraphSteps(d.body.nodes) ELSE hs
             im == BodyImages(d.body.imgs, b, [urls |-> acc.urls, raised |-> FALSE])
         IN [steps |-> steps, urls |-> im.urls, raised |-> im.raised]

\* ---------------------------------------------------------------- parse_html

NoneResult == [kind |-> "None"]
Raised == [kind |-> "raise"]

\* steps_text = [] and image_urls = [] (lines 225-226).
InitialStepsText == <<>>

\* A variant in which the list outlives the call: it starts from the images the
\* previous call returned.
InitialImageUrls_shared == IF result.kind = "record" THEN result.value.image_urls ELSE <<>>

InitialImageUrls == <<>>

\* Lines 225-439: the steps and images collected, or raised.
Collect(d, b) ==
    LET sc == StepContainers(d)
        acc0 == [steps |-> InitialStepsText, urls |-> InitialImageUrls,
                 raised |-> FALSE]
    IN IF sc # <<>> THEN ContainerMode(sc, b, acc0) ELSE Fallback(d, b, acc0)

\* Line 445: not steps_text and not image_urls.
NothingFound(steps, urls) == steps = <<>> /\ urls = <<>>

\* A variant of the cleaning pass that keeps every non-empty URL.
CleanImageUrls_any_scheme(urls) == SelectSeq(urls, LAMBDA u : u # EmptyUrl)

\* Line 454.
CleanImageUrls(urls) == SelectSeq(urls, LAMBDA u : u # EmptyUrl /\ StartsWithHttp(u))

\* Line 453.
CleanSteps(steps) == SelectSeq(steps, LAMBDA t : t.len > 0)

\* Line 455.
CleanSupplies(supplies) == SelectSeq(supplies, LAMBDA t : Strip(t) # <<>>)

\* A variant that also returns None when the title is the sentinel.
ParseBody_title_required(d, b) ==
    LET acc == Collect(d, b) IN
    IF acc.raised THEN Raised
    ELSE IF NothingFound(acc.steps, acc.urls) \/ ExtractTitle(d) = UnknownTitle
    THEN NoneResult
    ELSE [kind |-> "record",
          value |-> [title |-> ExtractTitle(d),
                     author |-> ExtractAuthor(d),
                     supplies |-> CleanSupplies(ExtractSupplies(d)),
                     steps |-> CleanSteps(acc.steps),
                     image_urls |-> CleanImageUrls(acc.urls)]]

\* The body of the try block (lines 149-466): a record, None, or raised.
ParseBody(d, b) ==
    LET title == ExtractTitle(d)
        author == ExtractAuthor(d)
        supplies == ExtractSupplies(d)
        acc == Collect(d, b)
    IN IF acc.raised THEN Raised
       ELSE IF NothingFound(acc.steps, acc.urls) THEN NoneResult
       ELSE [kind |-> "record",
             value |-> [title |-> title,
                        author |-> author,
                        supplies |-> CleanSupplies(supplies),
                        steps |-> CleanSteps(acc.steps),
                        image_urls |-> CleanImageUrls(acc.urls)]]

\* A variant without the except clause: what the body raises reaches the caller.
parse_html_unguarded(d, b) == ParseBody(d, b)

\* parse_html (lines 139-470): `except Exception` turns whatever the body raises
\* into None.
parse_html(d, b) ==
    LET r == ParseBody(d, b) IN IF r.kind = "raise" THEN NoneResult ELSE r

\* ------------------------------------------------- spec 4.3: title filter

\* The pipeline of spec section 4.3 around parse_html, for a profile with the
\* required title prefix `prefix` (<<>>: none demanded): TitleFilterMismatch
\* when the extracted title does not start with the prefix, compared without
\* regard to case; otherwise what parse_html gives.
TitlePasses(title, prefix) == StartsWith(Lower(title), Lower(prefix))

\* A variant that compares case-sensitively.
Extract_case_sensitive(d, b, prefix) ==
    IF prefix # <<>> /\ ~StartsWith(ExtractTitle(d), prefix)
    THEN [kind |-> "None", reason |-> "TitleFilterMismatch"]
    ELSE LET r == ParseBody(d, b) IN
         IF r.kind = "raise" THEN [kind |-> "None", reason |-> "ParseFailure"]
         ELSE IF r.kind = "None" THEN [kind |-> "None", reason |-> "NoStepsNoImages"]
         ELSE r

Extract(d, b, prefix) ==
    IF prefix # <<>> /\ ~TitlePasses(ExtractTitle(d), prefix)
    THEN [kind |-> "None", reason |-> "TitleFilterMismatch"]
    ELSE LET r == ParseBody(d, b) IN
         IF r.kind = "raise" THEN [kind |-> "None", reason |-> "ParseFailure"]
         ELSE IF r.kind = "None" THEN [kind |-> "None", reason |-> "NoStepsNoImages"]
         ELSE r

\* --------------------------------------------------------------- fetch_page

\* USER_AGENTS (lines 27-33), by position.
NumUserAgents == 5

AcceptLanguage == "en-US,en;q=0.9"

\* get_random_headers() (lines 35-40) when random.choice gives USER_AGENTS[k].
get_random_headers(k) == [User_Agent |-> k, Accept_Language |-> AcceptLanguage]

NoHeaders == [User_Agent |-> 0, Accept_Language |-> ""]

\* random.uniform(2, 5) (line 52), in whole seconds.
MinDelay == 2
MaxDelay == 5

\* timeout=10 (line 56).
RequestTimeout == 10

\* What requests.get gives: a response with a status and a text, or one of the
\* RequestException classes raised.
Response(status, text) == [kind |-> "response", status |-> status, text |-> text]
RequestError(cls) == [kind |-> "raise", cls |-> cls]
NoResponse == [kind |-> "none"]

\* response.raise_for_status() (line 57) raises HTTPError for 4xx and 5xx.
RaisesForStatus(status) == 400 <= status /\ status < 600

\* A variant without the status check of line 57.
FetchResult_ignores_status(resp) ==
    IF resp.kind = "raise" THEN [kind |-> "None"]
    ELSE [kind |-> "str", value |-> resp.text]

\* What fetch_page returns (lines 56-62): response.text, or None when
\* requests.get or raise_for_status raised a RequestException.
FetchResult(resp) ==
    IF resp.kind = "raise" \/ RaisesForStatus(resp.status) THEN [kind |-> "None"]
    ELSE [kind |-> "str", value |-> resp.text]

\* ------------------------------------------- tool_locator.py: locate_tools

\* Coordinates are normalised to 0..1000; a box has four of them.
MaxCoord == 1000
BoxLen == 4

\* A JSON value in a box: an integer, a numeric string (which the List[int]
\* field converts to its integer), or a value that is no integer.
JInt(n) == [kind |-> "int", val |-> n]
JNumStr(n) == [kind |-> "numstr", val |-> n]
JOther == [kind |-> "other", val |-> 0]

\* The List[int] validation of bbox_2d with min_length and max_length 4
\* (lines 34-39): <<TRUE, the integers>> or <<FALSE, <<>>>>.
IntList(box) ==
    IF Len(box) = BoxLen /\ \A i \in 1..Len(box) : box[i].kind \in {"int", "numstr"}
    THEN <<TRUE, [i \in 1..Len(box) |-> box[i].val]>>
    ELSE <<FALSE, <<>>>>

\* A variant of the ordering checks that lets equal edges pass.
validate_bbox_allows_equal(v) ==
    /\ Len(v) = BoxLen
    /\ \A i \in 1..Len(v) : 0 <= v[i] /\ v[i] <= MaxCoord
    /\ v[1] <= v[3]
    /\ v[2] <= v[4]

\* ToolLocation.validate_bbox (lines 41-69): TRUE when no ValueError is raised.
validate_bbox(v) ==
    /\ Len(v) = BoxLen
    /\ \A i \in 1..Len(v) : 0 <= v[i] /\ v[i] <= MaxCoord
    /\ v[1] < v[3]
    /\ v[2] < v[4]

\* ToolLocation(**t): the validated tool, for a t that passes.
ToolPasses(t) == t.named /\ IntList(t.bbox)[1] /\ validate_bbox(IntList(t.bbox)[2])
ToolLocation(t) == [tool_name |-> t.tool_name, bbox_2d |-> IntList(t.bbox)[2]]

\* locate_tools (lines 155-264): [] for an empty tool_list, a failed download,
\* an error of the model call, a text that is no JSON, a JSON value that is no
\* object, or a tool that fails validation; the validated tools otherwise.
locate_tools(tl, r) ==
    IF tl = <<>> THEN <<>>
    ELSE IF ~r.downloaded THEN <<>>
    ELSE IF r.kind \in {"api_error", "not_json", "not_object"} THEN <<>>
    ELSE IF \E i \in 1..Len(r.tools) : ~ToolPasses(r.tools[i]) THEN <<>>
    ELSE [i \in 1..Len(r.tools) |-> ToolLocation(r.tools[i])]

\* --------------------------------------------------------------------- main

\* `if html:` (line 122): a string that is not empty.
Truthy(html) == html.kind = "str" /\ ~html.value.empty

\* InstructableGuide(**entry) (line 86) for the entries parse_html makes: the
\* five fields are there, strings and lists of strings, so every entry passes.
Validates(entry) == DOMAIN entry = {"title", "author", "supplies", "steps", "image_urls"}

\* valid_guides of validate_and_save (lines 81-90).
valid_guides(raw_data_list) == SelectSeq(raw_data_list, Validates)

\* ------------------------------------------------------------ the inputs

\* URLs.
Url(scheme, netloc, path) == [scheme |-> scheme, netloc |-> netloc, path |-> path]

BaseGuide == Url("https", "x.com", <<"", "guide">>)
BaseDeep == Url("https", "x.com", <<"", "a", "guide">>)
BaseRoot == Url("http", "y.org", <<"">>)
BaseDir == Url("https", "x.com", <<"", "a", "">>)

\* base_url is the address the page was fetched from (lines 120-124): an
\* absolute http(s) URL, as requests.get accepts no other.
Bases == {BaseGuide, BaseDeep, BaseRoot, BaseDir}

\* The bases the documents with images are parsed with.
ImageBases == {BaseGuide, BaseRoot}

RelPaths ==
    {<<"", "img", "a.png">>, <<"img", "a.png">>, <<"a.png">>, <<"..", "a.png">>,
     <<".", "a.png">>, <<"img", "..">>, <<"", "a", "a.png">>}

Urls ==
    {EmptyUrl}
    \cup {Url("", "", p) : p \in RelPaths}
    \cup {Url(s, n, p) : s \in {"https", "http", "ftp", ""},
                         n \in {"x.com", "cdn.com"},
                         p \in {<<"", "img", "a.png">>, <<"", "a.png">>}}
    \cup {Url("data", "", <<"image", "png;base64,AA">>),
          Url("ftp", "", <<"a.png">>),
          Url("http", "", <<"a.png">>),
          Url("https", "", <<"a.png">>),
          Url("", BadNetloc, <<"", "a.png">>),
          Url("http", BadNetloc, <<"", "a.png">>)}

\* Body texts.
W_The == <<"T","h","e">>
W_step == <<"s","t","e","p">>
W_Step == <<"S","t","e","p">>
W_STEP == <<"S","T","E","P">>
W_Stepladder == <<"S","t","e","p","l","a","d","d","e","r">>
W_Ste == <<"S","t","e">>
W_share == <<"s","h","a","r","e">>
W_next == <<"n","e","x","t">>
W_Next == <<"N","e","x","t">>
W_Previous == <<"P","r","e","v","i","o","u","s">>

T_step40 == Text(40, W_The, 0, FALSE, TRUE)
T_plain(n) == Text(n, W_The, 0, FALSE, FALSE)
T_stepword(n) == Text(n, W_step, 0, FALSE, FALSE)
T_share(n) == Text(n, W_share, 5, TRUE, FALSE)
T_next(n) == Text(n, W_next, 4, FALSE, FALSE)
T_latekw(n) == Text(n, W_The, 55, FALSE, FALSE)

\* Images.
S_icon == <<"i","c","o","n">>
S_photo == <<"p","h","o","t","o">>
S_Logo == <<"L","o","g","o">>
S_shadow == <<"s","h","a","d","o","w">>

Img(cls, alt, src) ==
    [cls |-> cls, alt |-> alt, src |-> src, dataSrc |-> EmptyUrl,
     dataLazy |-> EmptyUrl, dataOrig |-> EmptyUrl, dataUrl |-> EmptyUrl,
     width |-> NoDim, height |-> NoDim]

U_abs == Url("https", "x.com", <<"", "img", "a.png">>)
U_rel == Url("", "", <<"", "img", "a.png">>)
U_cdn == Url("https", "cdn.com", <<"", "a.png">>)
U_data == Url("data", "", <<"image", "png;base64,AA">>)
U_ftp == Url("ftp", "cdn.com", <<"", "a.png">>)
U_noscheme == Url("", "cdn.com", <<"", "a.png">>)
U_bad == Url("", BadNetloc, <<"", "a.png">>)

Dim(n) == [kind |-> "int", val |-> n]
DimText == [kind |-> "text", val |-> 0]

ImgSet ==
    {Img(<<>>, <<>>, u) : u \in {U_abs, U_rel, U_cdn, U_data, U_bad}}
    \cup {Img(S_icon, <<>>, U_cdn)}

\* Single images with the other attributes the loops read.
ImgSingles ==
    {Img(<<>>, S_Logo, U_cdn), Img(S_shadow, <<>>, U_cdn), Img(<<>>, <<>>, U_ftp),
     Img(<<>>, <<>>, U_noscheme),
     Img(<<>>, <<>>, EmptyUrl),
     [Img(<<>>, <<>>, EmptyUrl) EXCEPT !.dataSrc = U_cdn],
     [Img(<<>>, <<>>, EmptyUrl) EXCEPT !.dataUrl = U_cdn],
     [Img(S_photo, <<>>, U_cdn) EXCEPT !.width = Dim(40), !.height = Dim(400)],
     [Img(S_photo, <<>>, U_cdn) EXCEPT !.width = Dim(400), !.height = DimText],
     [Img(S_photo, <<>>, U_cdn) EXCEPT !.width = Dim(40), !.height = DimText],
     [Img(S_photo, <<>>, U_cdn) EXCEPT !.width = DimText, !.height = Dim(40)],
     [Img(S_photo, <<>>, U_cdn) EXCEPT !.width = Dim(400), !.height = Dim(40)],
     [Img(S_photo, <<>>, U_cdn) EXCEPT !.width = Dim(50), !.height = Dim(50)],
     [Img(S_photo, <<>>, U_cdn) EXCEPT !.height = Dim(40)],
     [Img(<<>>, <<>>, EmptyUrl) EXCEPT !.dataSrc = U_abs, !.dataLazy = U_cdn],
     [Img(<<>>, <<>>, EmptyUrl) EXCEPT !.dataLazy = U_cdn, !.dataOrig = U_abs],
     [Img(<<>>, <<>>, EmptyUrl) EXCEPT !.dataOrig = U_abs, !.dataUrl = U_cdn]}

ImgSeqs == SeqsUpTo(ImgSet, MaxImgs) \cup {<<i>> : i \in ImgSingles}

\* Title-bearing elements.
S_HowToBuild ==
    <<"H","o","w"," ","t","o"," ","B","u","i","l","d"," ","a"," ","S","h","e","l","f">>
S_Building == <<"B","u","i","l","d","i","n","g"," ","a"," ","S","h","e","l","f">>
S_HOWTO == <<"H","O","W"," ","T","O"," ","f","i","x">>
S_blank == <<" ">>
S_padded == <<" ","H","o","w"," ","t","o"," ","f","i","x"," ">>
S_howto == <<"h","o","w"," ","t","o">>

TitleEl(tag, cls, text) == [tag |-> tag, cls |-> cls, text |-> text]

TitleElemSet ==
    {TitleEl("h1", "header-title", S_HowToBuild),
     TitleEl("h1", "title", S_Building),
     TitleEl("h1", "other", S_blank),
     TitleEl("h1", "other", UnknownTitle),
     TitleEl("h1", "other", S_padded),
     TitleEl("meta", "", S_HOWTO),
     TitleEl("meta", "", <<>>),
     TitleEl("title", "", S_Building)}

TitleElemSeqs == SeqsUpTo(TitleElemSet, MaxElems)

S_Ann == <<"A","n","n">>
S_Bob == <<" ","B","o","b">>

AuthorEl(sel, text) == [sel |-> sel, text |-> text]

AuthorElemSet ==
    {AuthorEl(1, S_Ann), AuthorEl(1, S_blank), AuthorEl(3, S_Bob), AuthorEl(5, <<>>)}

AuthorElemSeqs == SeqsUpTo(AuthorElemSet, MaxElems)

S_wood == <<"w","o","o","d">>
S_glue == <<" ","g","l","u","e"," ">>

SupplySectionSet ==
    {[sel |-> 1, items |-> <<S_wood, S_blank, S_glue>>],
     [sel |-> 3, items |-> <<S_glue>>],
     [sel |-> 2, items |-> <<>>]}

SupplySeqs == SeqsUpTo(SupplySectionSet, MaxElems)

\* Step containers.
Container(kind, bodies, paras, other, imgs) ==
    [kind |-> kind, bodies |-> bodies, paras |-> paras, other |-> other,
     imgs |-> imgs]

BodyEl(sel, text) == [sel |-> sel, text |-> text]

BodyChoices ==
    {<<>>} \cup {<<BodyEl(1, t)>> : t \in {EmptyText, T_plain(8), T_plain(15),
                                          T_plain(16), T_step40, T_stepword(40)}}
    \cup {<<BodyEl(4, T_plain(8)), BodyEl(2, T_plain(20))>>,
          <<BodyEl(5, T_plain(12))>>}

ParaTexts == {T_plain(8), T_plain(16), T_next(30)}

OtherChoices == {EmptyText, T_plain(25), T_share(25)}

TextContainers ==
    {Container("div.step", bs, ps, o, <<>>) :
        bs \in BodyChoices, ps \in SeqsUpTo(ParaTexts, MaxParas), o \in OtherChoices}
    \cup {Container("div.step", <<>>, ps, T_latekw(60), <<>>) :
            ps \in {<<>>, <<EmptyText>>, <<T_plain(8)>>}}

ImgContainers ==
    {Container("div.step", <<>>, ps, EmptyText, im) :
        ps \in {<<>>, <<T_step40>>}, im \in ImgSeqs}

GoodContainer == Container("div.step", <<>>, <<T_step40>>, EmptyText, <<>>)

\* Two containers: selector priority, and images shared between containers.
ContainerPairs ==
    {<<c1, c2>> :
        c1 \in {Container(k, <<>>, <<T_step40>>, EmptyText, <<Img(<<>>, <<>>, U_abs)>>) :
                  k \in {"div.step", "article.step", "section.step",
                         "div.step-body", "div[data-step]", "li.step",
                         "span.substep", "div#step1", "div.Step", "div.other"}},
        c2 \in {Container(k, <<>>, <<T_plain(17)>>, EmptyText, <<Img(<<>>, <<>>, u)>>) :
                  k \in {"div.step", "div[data-step]", "div#step1", "div.Step"},
                  u \in {U_rel, U_cdn}}}

\* The content of the fallback branch: sections of a heading and what follows it.
Node(tag, label, text) == [tag |-> tag, label |-> label, text |-> text]

H2Step == Node("h2", "step", T_stepword(6))
H3Step == Node("h3", "step", T_stepword(6))
P40 == Node("p", "", T_step40)

SectionSet ==
    {<<H2Step, P40>>,
     <<H3Step, Node("div", "", T_plain(16)), Node("p", "", T_plain(120))>>,
     <<H2Step, Node("p", "", T_plain(18))>>,
     <<H2Step, Node("str", "", T_plain(5)), Node("ul", "", T_step40)>>,
     <<Node("h4", "other", T_plain(9)), P40>>,
     <<Node("h5", "step", T_stepword(6)), P40>>}

RECURSIVE Flatten(_)
Flatten(ss) == IF ss = <<>> THEN <<>> ELSE Head(ss) \o Flatten(Tail(ss))

Body(found, nodes, imgs) == [found |-> found, nodes |-> nodes, imgs |-> imgs]
NoBody == Body(FALSE, <<>>, <<>>)

SectionBodies ==
    {Body(f, Flatten(ss), <<>>) :
        f \in BOOLEAN, ss \in SeqsUpTo(SectionSet, MaxSections)}
    \cup {Body(TRUE, pre \o Flatten(ss), <<>>) :
            pre \in {<<Node("p", "", T_share(40))>>, <<P40>>,
                     <<Node("h3", "digit", T_plain(1)), P40>>,
                     <<H2Step>>},
            ss \in SeqsUpTo(SectionSet, 1)}

ParagraphBodies ==
    {Body(TRUE, <<Node("p", "", t)>>, <<>>) :
        t \in {T_plain(30), T_plain(31), T_plain(101), T_step40, T_share(120),
               Text(31, W_The, 0, FALSE, TRUE)}}

\* A step heading, a paragraph, a heading of each level, a paragraph.
LevelBodies ==
    {Body(TRUE, <<Node(hs, "step", T_stepword(6)), Node("p", "", T_plain(30)),
                  Node(h, "other", T_plain(9)), Node("p", "", T_plain(41))>>, <<>>) :
        hs \in {"h2", "h3", "h4"}, h \in {"h1", "h2", "h3", "h4", "h5", "h6"}}

ImgBodies ==
    {Body(f, <<>>, im) : f \in BOOLEAN, im \in ImgSeqs}
    \cup {Body(TRUE, <<H2Step, P40>>, <<i>>) : i \in ImgSet}

\* Images that carry class icon.
IconImg == Img(S_icon, <<>>, U_cdn)
IconImgAbs == Img(S_icon, S_photo, U_abs)

IconImgSeqs == {<<IconImg>>, <<IconImg, IconImgAbs>>}

\* Step containers and main-content elements whose only images carry class icon.
IconContainers ==
    {Container("div.step", bs, ps, EmptyText, im) :
        bs \in {<<>>, <<BodyEl(1, T_plain(8))>>, <<BodyEl(1, T_step40)>>},
        ps \in SeqsUpTo({T_plain(5), T_plain(10)}, MaxParas),
        im \in IconImgSeqs}

IconBodies ==
    {Body(TRUE, ns, im) :
        ns \in {<<>>,
                <<H2Step, Node("p", "", T_plain(10))>>,
                <<H2Step, Node("div", "", T_plain(25))>>,
                <<H2Step, Node("str", "", T_plain(10)), Node("p", "", T_plain(10)),
                  Node("str", "", T_plain(10))>>,
                <<Node("p", "", T_plain(10)), Node("div", "", T_step40)>>,
                <<Node("p", "", T_plain(10)), Node("p", "", T_plain(5))>>},
        im \in IconImgSeqs}

\* Documents.
Doc(t, a, s, cs, body) ==
    [titleElems |-> t, authorElems |-> a, supplySections |-> s,
     containers |-> cs, body |-> body]

GoodTitle == <<TitleEl("h1", "header-title", S_HowToBuild)>>
GoodAuthor == <<AuthorEl(1, S_Ann)>>

EmptyDoc == Doc(<<>>, <<>>, <<>>, <<>>, NoBody)

TitleDocs ==
    {Doc(t, GoodAuthor, <<>>, cs, NoBody) :
        t \in TitleElemSeqs, cs \in {<<>>, <<GoodContainer>>}}

AuthorDocs ==
    {Doc(GoodTitle, a, <<>>, cs, NoBody) :
        a \in AuthorElemSeqs, cs \in {<<>>, <<GoodContainer>>}}

SupplyDocs ==
    {Doc(GoodTitle, a, s, <<GoodContainer>>, NoBody) :
        a \in {<<>>, GoodAuthor}, s \in SupplySeqs}

HeadDocs == TitleDocs \cup AuthorDocs \cup SupplyDocs

TextDocs ==
    {Doc(GoodTitle, GoodAuthor, <<>>, <<c>>, NoBody) : c \in TextContainers}
    \cup {Doc(GoodTitle, GoodAuthor, <<>>, <<>>, b) :
            b \in SectionBodies \cup ParagraphBodies \cup LevelBodies}
    \cup {Doc(GoodTitle, GoodAuthor, <<>>,
              <<Container("div.other", <<>>, <<T_step40>>, EmptyText, <<>>)>>,
              Body(f, <<H2Step, P40>>, <<>>)) : f \in BOOLEAN}

IconDocs ==
    {Doc(GoodTitle, GoodAuthor, <<>>, <<c>>, NoBody) : c \in IconContainers}
    \cup {Doc(GoodTitle, GoodAuthor, <<>>, <<>>, b) : b \in IconBodies}

ImageDocs ==
    {Doc(GoodTitle, <<>>, <<>>, <<c>>, NoBody) : c \in ImgContainers}
    \cup {Doc(GoodTitle, <<>>, <<>>, <<GoodContainer>>,
              Body(TRUE, <<P40>>, <<Img(<<>>, <<>>, U_cdn)>>))}
    \cup {Doc(GoodTitle, <<>>, <<>>, cs, NoBody) : cs \in ContainerPairs}
    \cup {Doc(GoodTitle, <<>>, <<>>, <<>>, b) : b \in ImgBodies}

\* Texts of 40 characters by the word they start with: "Step 1: Cut the board
\* to length" and its spellings, navigation words, and words that are not
\* prefixes of line 325.
PrefixTexts ==
    {Text(40, w, 0, FALSE, TRUE) : w \in {W_Step, W_STEP, W_step, W_Stepladder,
                                          W_Ste, W_The}}
    \cup {Text(40, W_Next, 4, FALSE, TRUE), Text(40, W_Previous, 8, FALSE, TRUE),
          Text(40, W_share, 5, TRUE, TRUE)}

PrefixImgSeqs ==
    {<<>>, <<Img(<<>>, <<>>, U_cdn)>>, <<IconImg>>, <<Img(<<>>, <<>>, U_data)>>}

\* A step container whose text is found by a body class, by its paragraphs or
\* as its whole text.
PrefixContainers ==
    {Container("div.step", <<BodyEl(1, t)>>, <<>>, EmptyText, im) :
        t \in PrefixTexts, im \in PrefixImgSeqs}
    \cup {Container("div.step", <<>>, <<t>>, EmptyText, im) :
            t \in PrefixTexts, im \in PrefixImgSeqs}
    \cup {Container("div.step", <<>>, <<>>, t, im) :
            t \in PrefixTexts, im \in PrefixImgSeqs}

\* Such a container followed by one with an ordinary text and an image.
PrefixPairs ==
    {<<Container("div.step", <<BodyEl(1, t)>>, <<>>, EmptyText,
                 <<Img(<<>>, <<>>, U_cdn)>>),
       Container("div.step", <<>>, <<T_step40>>, EmptyText,
                 <<Img(<<>>, <<>>, U_abs)>>)>> : t \in PrefixTexts}

PrefixDocs ==
    {Doc(GoodTitle, GoodAuthor, <<>>, <<c>>, NoBody) : c \in PrefixContainers}
    \cup {Doc(GoodTitle, GoodAuthor, <<>>, cs, NoBody) : cs \in PrefixPairs}

\* The calls: every document with the page address BaseGuide, the documents
\* with images with two bases.
Inputs ==
    {<<d, BaseGuide>> : d \in HeadDocs \cup TextDocs \cup IconDocs \cup PrefixDocs}
    \cup {<<d, b>> : d \in ImageDocs, b \in ImageBases}

\* The text of a response: a document, or the empty string.
Page(d) == [empty |-> FALSE, doc |-> d]
EmptyPage == [empty |-> TRUE, doc |-> EmptyDoc]

\* A page with a step, a page with an image only, a page with nothing to
\* extract, a page whose traversal raises.
StepPage == Page(Doc(GoodTitle, GoodAuthor, <<>>, <<GoodContainer>>, NoBody))
ImagePage ==
    Page(Doc(GoodTitle, <<>>, <<>>,
             <<Container("div.step", <<>>, <<>>, EmptyText, <<Img(<<>>, <<>>, U_rel)>>)>>,
             NoBody))
BarePage == Page(Doc(GoodTitle, GoodAuthor, <<>>, <<>>, NoBody))
BrokenPage ==
    Page(Doc(GoodTitle, <<>>, <<>>,
             <<Container("div.step", <<>>, <<T_step40>>, EmptyText,
                         <<Img(<<>>, <<>>, U_bad)>>)>>,
             NoBody))

Pages == {EmptyPage, StepPage, ImagePage, BarePage, BrokenPage}

\* What the network gives a GET.
Outcomes ==
    {Response(s, p) : s \in {200, 204, 301, 404, 500}, p \in {EmptyPage, StepPage, BarePage}}
    \cup {RequestError(c) : c \in {"ConnectionError", "Timeout", "RequestException"}}

\* target_urls (lines 105-109).
TargetA == Url("https", "www.instructables.com", <<"", "3d-Printed-Knee-Hockey-Target", "">>)
TargetB ==
    Url("https", "www.instructables.com",
        <<"", "Building-a-Coffee-Table-With-Endless-Depth-Infinit", "">>)
target_urls == <<TargetA, TargetB>>

\* What the model answers about an image.
MaxTools == 2

CoordValues ==
    {JInt(0 - 1), JInt(0), JInt(400), JInt(MaxCoord), JInt(MaxCoord + 1),
     JNumStr(400), JOther}

Tool(name, box) == [named |-> TRUE, tool_name |-> name, bbox |-> box]

Boxes == [1..BoxLen -> CoordValues]

BoxSamples ==
    {<<JInt(0), JInt(0), JInt(400), JInt(MaxCoord)>>,
     <<JInt(400), JNumStr(400), JInt(MaxCoord), JInt(MaxCoord)>>,
     <<JInt(400), JInt(0), JInt(400), JInt(MaxCoord)>>,
     <<JInt(0), JInt(0), JInt(400)>>,
     <<JInt(0), JInt(0), JInt(400), JInt(MaxCoord), JInt(MaxCoord)>>}

ToolLists ==
    {<<Tool("hammer", b)>> : b \in Boxes}
    \cup SeqsUpTo({Tool("drill", b) : b \in BoxSamples}, MaxTools)
    \cup {<<[Tool("hammer", b) EXCEPT !.named = FALSE]>> : b \in BoxSamples}

Reply(downloaded, kind, tools) ==
    [downloaded |-> downloaded, kind |-> kind, tools |-> tools]

Replies ==
    {Reply(TRUE, "object", ts) : ts \in ToolLists}
    \cup {Reply(d, k, <<>>) : d \in BOOLEAN,
                              k \in {"api_error", "not_json", "not_object", "object"}}
    \cup {Reply(FALSE, "object", <<Tool("hammer", b)>>) : b \in BoxSamples}

ToolNameLists == {<<>>, <<"hammer">>, <<"hammer", "drill">>}

\* What fetch_page meets in main's loop.
MainOutcomes ==
    {Response(s, p) : s \in {200, 404}, p \in Pages}
    \cup {RequestError(c) : c \in {"ConnectionError", "Timeout", "RequestException"}}

\* Inputs of the calls that are compared with an earlier call.
DetDocs ==
    {Doc(GoodTitle, GoodAuthor, <<>>, <<Container("div.step", <<>>, ps, EmptyText, im)>>,
         NoBody) :
        ps \in {<<>>, <<T_step40>>},
        im \in {<<>>, <<Img(<<>>, <<>>, U_abs)>>, <<Img(<<>>, <<>>, U_cdn)>>,
                <<Img(<<>>, <<>>, U_rel), Img(<<>>, <<>>, U_data)>>}}
    \cup {Doc(<<>>, <<>>, <<>>, <<>>,
              Body(TRUE, <<Node("p", "", T_step40)>>, <<Img(<<>>, <<>>, u)>>)) :
            u \in {U_cdn, U_bad}}

DetBases == {BaseGuide, BaseRoot}

\* Required title prefixes of the profiles: none, or "how to".
Profiles == {<<>>, S_howto}

\* ------------------------------------------------------- the state machine

NoReply == [kind |-> "none"]

Init ==
    /\ pc = "idle"
    /\ doc = EmptyDoc
    /\ base = EmptyUrl
    /\ result = NoneResult
    /\ url = EmptyUrl
    /\ profile = <<>>
    /\ memo = <<>>
    /\ headers = NoHeaders
    /\ delay = 0
    /\ response = NoResponse
    /\ log = <<>>
    /\ idx = 0
    /\ raw_results = <<>>
    /\ saved = <<>>
    /\ tool_list = <<>>
    /\ reply = NoReply

\* data = parse_html(html, url) (line 124).
ParseHtml ==
    /\ pc = "idle"
    /\ \E in \in Inputs :
          /\ doc' = in[1]
          /\ base' = in[2]
          /\ result' = parse_html(in[1], in[2])
    /\ pc' = "parsed"
    /\ UNCHANGED <<url, profile, memo>>
    /\ UNCHANGED <<fetchVars, mainVars, locateVars>>

\* absolute_url = make_absolute_url(src, base_url) (lines 346, 437).
MakeAbsoluteUrl ==
    /\ pc = "idle"
    /\ \E u \in Urls, b \in Bases :
          /\ url' = u
          /\ base' = b
          /\ result' = LET r == make_absolute_url(u, b) IN
                       IF r = ValueError THEN Raised
                       ELSE [kind |-> "url", value |-> r]
    /\ pc' = "resolved"
    /\ UNCHANGED <<doc, profile, memo>>
    /\ UNCHANGED <<fetchVars, mainVars, locateVars>>

\* extract(html, baseUrl, profile) of spec section 4.3.
ExtractCall ==
    /\ pc = "idle"
    /\ \E d \in TitleDocs, p \in Profiles :
          /\ doc' = d
          /\ profile' = p
          /\ result' = Extract(d, BaseGuide, p)
    /\ base' = BaseGuide
    /\ pc' = "extracted"
    /\ UNCHANGED <<url, memo>>
    /\ UNCHANGED <<fetchVars, mainVars, locateVars>>

\* The caller is done with the value returned and goes on.
Return ==
    /\ pc \in {"parsed", "resolved", "extracted", "fetched", "located"}
    /\ pc' = "idle"
    /\ doc' = EmptyDoc
    /\ base' = EmptyUrl
    /\ result' = NoneResult
    /\ url' = EmptyUrl
    /\ profile' = <<>>
    /\ headers' = NoHeaders
    /\ delay' = 0
    /\ response' = NoResponse
    /\ log' = <<>>
    /\ tool_list' = <<>>
    /\ reply' = NoReply
    /\ UNCHANGED <<memo, mainVars>>

\* One more parse_html call of a run of calls (the loop of lines 116-133).
ParseNext ==
    /\ pc = "idle"
    /\ \E d \in DetDocs, b \in DetBases :
          /\ doc' = d
          /\ base' = b
          /\ result' = parse_html(d, b)
    /\ pc' = "parsed"
    /\ UNCHANGED <<url, profile, memo>>
    /\ UNCHANGED <<fetchVars, mainVars, locateVars>>

\* The loop goes on; the call just made is kept to compare later calls with.
Remember ==
    /\ pc = "parsed"
    /\ pc' = "idle"
    /\ memo' = <<doc, base, result>>
    /\ UNCHANGED <<doc, base, result, url, profile>>
    /\ UNCHANGED <<fetchVars, mainVars, locateVars>>

\* The loop goes on.
Continue ==
    /\ pc = "parsed"
    /\ pc' = "idle"
    /\ UNCHANGED <<doc, base, result, url, profile, memo>>
    /\ UNCHANGED <<fetchVars, mainVars, locateVars>>

\* fetch_page, lines 49-53: the headers and the delay are drawn.
FetchPrepare ==
    /\ pc = "idle"
    /\ \E u \in {TargetA, TargetB}, k \in 1..NumUserAgents, d \in MinDelay..MaxDelay :
          /\ url' = u
          /\ headers' = get_random_headers(k)
          /\ delay' = d
          /\ log' = Append(log, [op |-> "uniform", lo |-> MinDelay, hi |-> MaxDelay,
                                 value |-> d])
    /\ pc' = "prepared"
    /\ UNCHANGED <<doc, base, result, profile, memo, response>>
    /\ UNCHANGED <<mainVars, locateVars>>

\* A variant that goes on without sleeping.
FetchSleep_skipped ==
    /\ pc = "prepared"
    /\ pc' = "slept"
    /\ UNCHANGED <<doc, base, result, url, profile, memo, headers, delay, response, log>>
    /\ UNCHANGED <<mainVars, locateVars>>

\* Line 54: time.sleep(delay).
FetchSleep ==
    /\ pc = "prepared"
    /\ log' = Append(log, [op |-> "sleep", secs |-> delay])
    /\ pc' = "slept"
    /\ UNCHANGED <<doc, base, result, url, profile, memo, headers, delay, response>>
    /\ UNCHANGED <<mainVars, locateVars>>

\* Lines 56-57: the GET is issued and answered.
FetchGet ==
    /\ pc = "slept"
    /\ \E r \in Outcomes : response' = r
    /\ log' = Append(log, [op |-> "get", url |-> url, headers |-> headers,
                           timeout |-> RequestTimeout])
    /\ pc' = "responded"
    /\ UNCHANGED <<doc, base, result, url, profile, memo, headers, delay>>
    /\ UNCHANGED <<mainVars, locateVars>>

\* Lines 59-62: the text, or None after a RequestException.
FetchReturn ==
    /\ pc = "responded"
    /\ result' = FetchResult(response)
    /\ pc' = "fetched"
    /\ UNCHANGED <<doc, base, url, profile, memo, headers, delay, response, log>>
    /\ UNCHANGED <<mainVars, locateVars>>

Next == ParseHtml \/ Return

Spec == Init /\ [][Next]_vars

NextUrl == MakeAbsoluteUrl \/ Return

SpecUrl == Init /\ [][NextUrl]_vars

NextProfile == ExtractCall \/ Return

SpecProfile == Init /\ [][NextProfile]_vars

\* locator.locate_tools(image_url, tool_list).
LocateTools ==
    /\ pc = "idle"
    /\ \E tl \in ToolNameLists, r \in Replies :
          /\ tool_list' = tl
          /\ reply' = r
          /\ result' = [kind |-> "list", value |-> locate_tools(tl, r)]
    /\ pc' = "located"
    /\ UNCHANGED <<doc, base, url, profile, memo>>
    /\ UNCHANGED <<fetchVars, mainVars>>

NextLocate == LocateTools \/ Return

SpecLocate == Init /\ [][NextLocate]_vars

\* main, lines 105-113: raw_results = [] and the loop starts at the first URL.
MainStart ==
    /\ pc = "idle" /\ idx = 0
    /\ idx' = 1
    /\ raw_results' = <<>>
    /\ pc' = "main_loop"
    /\ UNCHANGED <<doc, base, result, url, profile, memo, saved>>
    /\ UNCHANGED <<fetchVars, locateVars>>

\* Lines 116-120: html = fetch_page(url) for the next URL of target_urls.
MainFetch ==
    /\ pc = "main_loop" /\ idx <= Len(target_urls)
    /\ url' = target_urls[idx]
    /\ \E r \in MainOutcomes :
          /\ response' = r
          /\ result' = FetchResult(r)
          /\ log' = Append(log, [op |-> "fetch_page", url |-> target_urls[idx],
                                 html |-> FetchResult(r)])
    /\ pc' = "main_fetched"
    /\ UNCHANGED <<doc, base, profile, memo, headers, delay>>
    /\ UNCHANGED <<mainVars, locateVars>>

\* Lines 122-131: the page is parsed and a record is appended to raw_results.
MainParse ==
    /\ pc = "main_fetched" /\ Truthy(result)
    /\ \E data \in {parse_html(result.value.doc, url)} :
          /\ result' = data
          /\ raw_results' = IF data.kind = "record"
                            THEN Append(raw_results, data.value) ELSE raw_results
    /\ doc' = result.value.doc
    /\ base' = url
    /\ idx' = idx + 1
    /\ pc' = "main_loop"
    /\ UNCHANGED <<url, profile, memo, saved>>
    /\ UNCHANGED <<fetchVars, locateVars>>

\* A variant that leaves the loop at the first URL that cannot be fetched.
MainSkip_stops ==
    /\ pc = "main_fetched" /\ ~Truthy(result)
    /\ idx' = Len(target_urls) + 1
    /\ pc' = "main_loop"
    /\ UNCHANGED <<doc, base, result, url, profile, memo, raw_results, saved>>
    /\ UNCHANGED <<fetchVars, locateVars>>

\* Lines 132-133: nothing was fetched, the loop goes on.
MainSkip ==
    /\ pc = "main_fetched" /\ ~Truthy(result)
    /\ idx' = idx + 1
    /\ pc' = "main_loop"
    /\ UNCHANGED <<doc, base, result, url, profile, memo, raw_results, saved>>
    /\ UNCHANGED <<fetchVars, locateVars>>

\* Lines 135-138: validate_and_save(raw_results) after the last URL.
MainSave ==
    /\ pc = "main_loop" /\ idx > Len(target_urls)
    /\ saved' = Append(saved, [arg |-> raw_results, written |-> valid_guides(raw_results)])
    /\ pc' = "main_done"
    /\ UNCHANGED <<doc, base, result, url, profile, memo, idx, raw_results>>
    /\ UNCHANGED <<fetchVars, locateVars>>

NextMain == MainStart \/ MainFetch \/ MainParse \/ MainSkip \/ MainSave

SpecMain == Init /\ [][NextMain]_vars

NextFetch == FetchPrepare \/ FetchSleep \/ FetchGet \/ FetchReturn \/ Return

SpecFetch == Init /\ [][NextFetch]_vars

NextDet == ParseNext \/ Remember \/ Continue

SpecDet == Init /\ [][NextDet]_vars

\* ------------------------------------------------------------- properties

Parsed == pc = "parsed"
IsRecord == result.kind = "record"

\* C1: every record parse_html returns has a non-empty steps list or a
\* non-empty image_urls list.
C1_RecordHasStepsOrImages ==
    (Parsed /\ IsRecord) =>
        (result.value.steps # <<>> \/ result.value.image_urls # <<>>)

\* C2: in every record returned, every entry of image_urls starts with
\* http:// or https:// and no URL appears twice.
C2_ImagesHttpUnique ==
    (Parsed /\ IsRecord) =>
        LET us == result.value.image_urls IN
        \A i \in 1..Len(us) :
            /\ us[i].scheme \in {"http", "https"} /\ us[i].netloc # ""
            /\ \A j \in 1..Len(us) : i # j => us[i] # us[j]

\* A record whose images went through the cleaning pass with a loss: the
\* collected list held a URL that is not http(s), and an image is left.
C2_Witness ==
    /\ Parsed /\ IsRecord
    /\ StepContainers(doc) # <<>>
    /\ Len(result.value.image_urls) >= 1
    /\ Len(Collect(doc, base).urls) > Len(result.value.image_urls)

\* C3: in every record returned, every step text is longer than 15 characters.
C3_StepsLongerThanMin ==
    (Parsed /\ IsRecord) =>
        \A i \in 1..Len(result.value.steps) : result.value.steps[i].len > 15

\* A record with a step of 16 characters, the shortest the filter lets through.
C3_Witness ==
    /\ Parsed /\ IsRecord
    /\ \E i \in 1..Len(result.value.steps) : result.value.steps[i].len = 16

Extracted == pc = "extracted"

PrefixOf(title, prefix) ==
    /\ Len(prefix) <= Len(title)
    /\ \A i \in 1..Len(prefix) : LowerChar(title[i]) = LowerChar(prefix[i])

\* C4: under a profile with a required title prefix, every accepted record's
\* title starts with the prefix, compared without regard to case; a document
\* whose extracted title does not is rejected with TitleFilterMismatch; a
\* document whose title does and that has a step is accepted.
C4_TitlePrefixFilter ==
    (Extracted /\ profile # <<>>) =>
        /\ IsRecord => PrefixOf(result.value.title, profile)
        /\ ~PrefixOf(ExtractTitle(doc), profile) =>
              result = [kind |-> "None", reason |-> "TitleFilterMismatch"]
        /\ (PrefixOf(ExtractTitle(doc), profile) /\ doc.containers # <<>>) => IsRecord

\* "HOW TO fix" accepted under the prefix "how to".
C4_Witness ==
    /\ Extracted /\ profile = S_howto /\ IsRecord
    /\ result.value.title = S_HOWTO

\* No selector of the title chain finds an element with an accepted text.
NoTitleExtracted(d) ==
    \A i \in 1..Len(title_selectors) :
        LET m == TitleMatches(d.titleElems, title_selectors[i]) IN
        m = {} \/ Strip(d.titleElems[Min(m)].text) \in {<<>>, UnknownTitle}

RecordKeys == {"title", "author", "supplies", "steps", "image_urls"}

\* C6: parse_html never raises: a call ends in None or in a dict with exactly
\* the keys title, author, supplies, steps, image_urls, and a call whose
\* traversal raises ends in None.
C6_NeverRaises ==
    Parsed =>
        /\ result.kind \in {"None", "record"}
        /\ IsRecord => DOMAIN result.value = RecordKeys
        /\ ParseBody(doc, base).kind = "raise" => result = NoneResult

\* A call whose traversal raised (an image source urlparse rejects) and that
\* returned None.
C6_Witness ==
    /\ Parsed /\ result = NoneResult
    /\ ParseBody(doc, base).kind = "raise"

\* No selector of the author chain finds an element with a non-empty text.
NoAuthorText(d) ==
    \A i \in 1..NumAuthorSelectors :
        LET m == {k \in 1..Len(d.authorElems) : d.authorElems[k].sel = i} IN
        m = {} \/ Strip(d.authorElems[Min(m)].text) = <<>>

\* C7: a missing author or missing supplies never causes rejection: whether a
\* record is returned is the same without the author and supplies elements;
\* a document with a step or an image collected gets a record; the author is
\* "Unknown Author" when no author text is found and supplies is empty when no
\* supplies container is found.
C7_AuthorSuppliesNeverReject ==
    Parsed =>
        /\ result.kind =
             parse_html([doc EXCEPT !.authorElems = <<>>, !.supplySections = <<>>],
                        base).kind
        /\ LET acc == Collect(doc, base) IN
           (~acc.raised /\ (acc.steps # <<>> \/ acc.urls # <<>>)) => IsRecord
        /\ (IsRecord /\ NoAuthorText(doc)) => result.value.author = UnknownAuthor
        /\ (IsRecord /\ doc.supplySections = <<>>) => result.value.supplies = <<>>

\* A record for a document with a blank author element and no supplies.
C7_Witness ==
    /\ Parsed /\ IsRecord
    /\ doc.authorElems # <<>> /\ NoAuthorText(doc) /\ doc.supplySections = <<>>
    /\ result.value.author = UnknownAuthor /\ result.value.supplies = <<>>

Resolved == pc = "resolved"

\* C9: make_absolute_url gives "" for an empty url, the url itself when it has
\* a network location, and for a url without scheme and network location a URL
\* with the scheme and network location of the base (with the url's own path
\* when that path starts at the root); /img/a.png against https://x.com/guide
\* gives https://x.com/img/a.png; applied to its result it returns the result.
C9_MakeAbsoluteUrl ==
    (Resolved /\ url.netloc # BadNetloc) =>
        /\ result.kind = "url"
        /\ url = EmptyUrl => result.value = EmptyUrl
        /\ url.netloc # "" => result.value = url
        /\ (url # EmptyUrl /\ url.scheme = "" /\ url.netloc = "") =>
              /\ result.value.scheme = base.scheme
              /\ result.value.netloc = base.netloc
              /\ result.value.path[1] = ""
              /\ (url.path[1] = "" /\ \A i \in 1..Len(url.path) :
                                          url.path[i] \notin {".", ".."})
                    => result.value.path = url.path
        /\ (url = U_rel /\ base = BaseGuide) => result.value = U_abs
        /\ make_absolute_url(result.value, base) = result.value

\* /img/a.png resolved against https://x.com/guide.
C9_Witness ==
    /\ Resolved /\ url = U_rel /\ base = BaseGuide /\ result.value = U_abs

\* Headings of the content, and those whose text says "Step N".
HeadingTags == {"h1", "h2", "h3", "h4", "h5", "h6"}

StepHeadings(d) ==
    {i \in 1..Len(d.body.nodes) :
        d.body.nodes[i].tag \in HeadingTags /\ d.body.nodes[i].label = "step"}

NoNumberHeadings(d) ==
    \A i \in 1..Len(d.body.nodes) : d.body.nodes[i].label # "digit"

\* The nodes after heading i up to the next h2, h3 or h4.
SegmentOf(d, i) ==
    LET ns == d.body.nodes
        stops == {j \in (i + 1)..Len(ns) : ns[j].tag \in {"h2", "h3", "h4"}}
        last == IF stops = {} THEN Len(ns) ELSE Min(stops) - 1
    IN SubSeq(ns, i + 1, last)

\* The texts of a segment that count: bare text, and the text of a p, div or
\* section longer than 15 characters.
Counted(seg) ==
    SelectSeq(seg, LAMBDA n : (n.tag = "str" /\ n.text.len > 0)
                               \/ (n.tag \in {"p", "div", "section"}
                                   /\ n.text.len > 15))

RECURSIVE SumLen(_)
SumLen(seg) == IF seg = <<>> THEN 0 ELSE Head(seg).text.len + SumLen(Tail(seg))

\* The length of the counted texts joined by single spaces.
JoinedLen(seg) ==
    IF Counted(seg) = <<>> THEN 0 ELSE SumLen(Counted(seg)) + Len(Counted(seg)) - 1

\* The k-th smallest element of a set of numbers.
RECURSIVE Nth(_, _)
Nth(S, k) == IF k = 1 THEN Min(S) ELSE Nth(S \ {Min(S)}, k - 1)

C10_Covered(d) ==
    /\ StepContainers(d) = <<>>
    /\ d.body.found
    /\ StepHeadings(d) # {}
    /\ NoNumberHeadings(d)
    /\ \A i \in StepHeadings(d) :
          /\ d.body.nodes[i].tag \in {"h2", "h3", "h4"}
          /\ JoinedLen(SegmentOf(d, i)) > 20

RECURSIVE ContainerImgs(_)
ContainerImgs(cs) ==
    IF cs = <<>> THEN <<>> ELSE Head(cs).imgs \o ContainerImgs(Tail(cs))

DocImgs(d) == ContainerImgs(d.containers) \o d.body.imgs

\* The document has images and each of them carries class icon.
OnlyIconImages(d) ==
    /\ DocImgs(d) # <<>>
    /\ \A i \in 1..Len(DocImgs(d)) : Contains(DocImgs(d)[i].cls, K_icon)

\* Every <p> of the document, in its step containers and in its body.
RECURSIVE ContainerParas(_)
ContainerParas(cs) ==
    IF cs = <<>> THEN <<>> ELSE Paragraphs(Head(cs)) \o ContainerParas(Tail(cs))

DocParas(d) ==
    LET ps == SelectSeq(d.body.nodes, LAMBDA n : n.tag = "p")
    IN ContainerParas(d.containers) \o [k \in 1..Len(ps) |-> ps[k].text]

\* No paragraph is longer than the smallest of the paragraph thresholds (10).
NoLongParagraph(d) == \A i \in 1..Len(DocParas(d)) : DocParas(d)[i].len <= 10

\* C11 as stated: a document whose only images carry class icon and that has
\* no paragraph longer than the minimum length is rejected (None).
C11_IconOnlyShortParagraphsRejected ==
    (Parsed /\ OnlyIconImages(doc) /\ NoLongParagraph(doc)) => result = NoneResult

\* No step text can be accepted: each step container holds at most 15
\* characters of text; without step containers, the main-content element holds
\* outside its headings no bare text and no p, div or section longer than 15.
NoStepText(d) ==
    IF StepContainers(d) # <<>>
    THEN \A k \in 1..Len(d.containers) : AllText(d.containers[k]).len <= 15
    ELSE \A i \in 1..Len(d.body.nodes) :
            LET n == d.body.nodes[i] IN
            \/ n.tag \in HeadingTags
            \/ n.tag # "str" /\ n.text.len <= 15

\* C11 amended: a document whose only images carry class icon and in which no
\* step text can be accepted is rejected (None), with step containers and
\* without; short paragraphs alone do not make it so.
C11_IconOnlyNoStepTextRejected ==
    (Parsed /\ OnlyIconImages(doc) /\ NoStepText(doc)) => result = NoneResult

\* A step container with a short paragraph and icon images only, rejected.
C11_Witness ==
    /\ Parsed /\ OnlyIconImages(doc) /\ NoStepText(doc)
    /\ StepContainers(doc) # <<>>
    /\ DocParas(doc) # <<>>
    /\ result = NoneResult

Fetched == pc = "fetched"

\* The events of the log with the given op.
Events(op) == {k \in 1..Len(log) : log[k].op = op}

\* C12: a fetch_page call issues exactly one GET; it returns the response text
\* unchanged, the empty string included, when the request succeeds with a
\* non-error status, and None when a RequestException was raised (HTTP error
\* status, connection error, timeout, generic); it raises none to its caller.
C12_FetchPageResult ==
    Fetched =>
        /\ Cardinality(Events("get")) = 1
        /\ result.kind \in {"str", "None"}
        /\ (response.kind = "response" /\ response.status \notin 400..599) =>
              result = [kind |-> "str", value |-> response.text]
        /\ (response.kind = "raise" \/ response.status \in 400..599) =>
              result = NoneResult

\* A call answered 200 with an empty body returned the empty string.
C12_Witness ==
    /\ Fetched
    /\ response = Response(200, EmptyPage)
    /\ result = [kind |-> "str", value |-> EmptyPage]

\* C13: in every fetch_page call one delay is drawn from [2, 5], one sleep of
\* that value is made, and the GET, with a User-Agent header, Accept-Language
\* en-US,en;q=0.9 and timeout 10, is issued after the sleep; no GET is issued
\* without a sleep before it.
C13_SleepBeforeGet ==
    /\ Cardinality(Events("uniform")) <= 1
    /\ Cardinality(Events("sleep")) <= 1
    /\ \A k \in Events("get") :
          /\ k = 3
          /\ log[1].op = "uniform" /\ log[1].lo = 2 /\ log[1].hi = 5
          /\ log[1].value >= 2 /\ log[1].value <= 5
          /\ log[2].op = "sleep" /\ log[2].secs = log[1].value
          /\ log[3].timeout = 10
          /\ log[3].headers.Accept_Language = "en-US,en;q=0.9"
          /\ log[3].headers.User_Agent \in 1..NumUserAgents
    /\ Fetched =>
          /\ Cardinality(Events("uniform")) = 1
          /\ Cardinality(Events("sleep")) = 1
          /\ Cardinality(Events("get")) = 1

\* A call that slept 5 seconds and then issued its GET.
C13_Witness ==
    /\ pc = "responded"
    /\ Len(log) = 3 /\ log[2] = [op |-> "sleep", secs |-> 5] /\ log[3].op = "get"

Located == pc = "located"

\* A box of the response that is four integers in 0..1000 with ymin < ymax
\* and xmin < xmax.
GoodBox(box) ==
    /\ Len(box) = 4
    /\ \A i \in 1..4 : box[i].kind \in {"int", "numstr"} /\ box[i].val \in 0..1000
    /\ box[1].val < box[3].val
    /\ box[2].val < box[4].val

\* The response is bad: the download failed, the answer is no JSON object, or
\* it holds an invalid box.
BadReply(r) ==
    \/ ~r.downloaded
    \/ r.kind # "object"
    \/ \E i \in 1..Len(r.tools) : ~GoodBox(r.tools[i].bbox)

\* C14: every ToolLocation locate_tools returns has a bbox of four integers
\* [ymin, xmin, ymax, xmax] in 0..1000 with ymin < ymax and xmin < xmax, and a
\* bad response (failed download, unparsable JSON, an invalid box) gives the
\* empty list, never an exception.
C14_BoxesValid ==
    Located =>
        /\ result.kind = "list"
        /\ \A i \in 1..Len(result.value) :
              LET b == result.value[i].bbox_2d IN
              /\ Len(b) = 4
              /\ \A k \in 1..4 : b[k] \in 0..1000
              /\ b[1] < b[3]
              /\ b[2] < b[4]
        /\ BadReply(reply) => result.value = <<>>

\* Two detections returned, one of them with a coordinate given as a numeric
\* string.
C14_Witness ==
    /\ Located /\ Len(result.value) = 2
    /\ \E i \in 1..2 : \E k \in 1..4 : reply.tools[i].bbox[k].kind = "numstr"

\* The records of the pages fetched so far that parse_html accepts, in the
\* order of the fetches.
RECURSIVE RecordsOf(_)
RecordsOf(fetches) ==
    IF fetches = <<>> THEN <<>>
    ELSE LET f == Head(fetches)
             data == IF f.html.kind = "str" /\ ~f.html.value.empty
                     THEN parse_html(f.html.value.doc, f.url)
                     ELSE NoneResult
         IN (IF data.kind = "record" THEN <<data.value>> ELSE <<>>)
            \o RecordsOf(Tail(fetches))

\* The fetches whose page has been dealt with.
Handled == IF pc = "main_fetched" THEN SubSeq(log, 1, Len(log) - 1) ELSE log

\* C15: in main's loop every target URL is fetched once, in list order; a
\* fetch failure or a parse rejection neither stops the loop nor removes
\* results collected before; validate_and_save is called once, after the last
\* URL, with the records of the URLs fetched and parsed successfully, in order.
C15_BatchIsolation ==
    /\ Len(log) <= Len(target_urls)
    /\ \A k \in 1..Len(log) : log[k].op = "fetch_page" /\ log[k].url = target_urls[k]
    /\ raw_results = RecordsOf(Handled)
    /\ pc # "main_done" => saved = <<>>
    /\ pc = "main_done" =>
          /\ Len(log) = Len(target_urls)
          /\ Len(saved) = 1
          /\ saved[1].arg = RecordsOf(log)

\* A run whose first URL could not be fetched and whose second URL gave a
\* record, saved at the end.
C15_Witness ==
    /\ pc = "main_done"
    /\ log[1].html = NoneResult
    /\ Len(raw_results) = 1
    /\ saved[1].arg = raw_results

\* No strategy before the full-container text yields an accepted text: no
\* body-class element of the container has a text longer than 10 characters
\* and no paragraph is longer than 10 characters.
NoEarlierText(c) ==
    /\ \A k \in 1..Len(c.bodies) : c.bodies[k].text.len <= 10
    /\ \A k \in 1..Len(c.paras) : c.paras[k].len <= 10

\* The full container text passes its own test: longer than 20 characters and
\* no exclusion keyword in its first 50.
FullTextPasses(c) ==
    /\ AllText(c).len > 20
    /\ ~(AllText(c).kw > 0 /\ AllText(c).kw <= 50)

\* C16: when no earlier strategy of the chain yields an accepted text, the
\* full-container-text strategy decides: a rejected candidate of an earlier
\* strategy does not suppress it, so the container's step is its full text
\* whenever that text passes.
C16_RejectedCandidateDoesNotSuppress ==
    (Parsed /\ Len(doc.containers) = 1 /\ StepContainers(doc) # <<>>
        /\ NoEarlierText(doc.containers[1])
        /\ FullTextPasses(doc.containers[1])
        /\ AcceptStep(AllText(doc.containers[1]))) =>
        (IsRecord /\ result.value.steps = <<AllText(doc.containers[1])>>)

\* The structural level of a heading: 1 for h1 ... 6 for h6.
Level(tag) ==
    CASE tag = "h1" -> 1 [] tag = "h2" -> 2 [] tag = "h3" -> 3
      [] tag = "h4" -> 4 [] tag = "h5" -> 5 [] tag = "h6" -> 6

\* The nodes after heading i up to the next heading of the same or a higher
\* structural level.
LevelSegmentOf(d, i) ==
    LET ns == d.body.nodes
        stops == {j \in (i + 1)..Len(ns) :
                     ns[j].tag \in HeadingTags /\ Level(ns[j].tag) <= Level(ns[i].tag)}
        last == IF stops = {} THEN Len(ns) ELSE Min(stops) - 1
    IN SubSeq(ns, i + 1, last)

\* The fallback runs on a main-content element with one "Step" heading, an
\* h2, h3 or h4, and no number heading.
OneStepHeading(d) ==
    /\ StepContainers(d) = <<>> /\ d.body.found
    /\ NoNumberHeadings(d)
    /\ Cardinality(StepHeadings(d)) = 1
    /\ \A i \in StepHeadings(d) : d.body.nodes[i].tag \in {"h2", "h3", "h4"}

FlatSegmentOf(d, i) ==
    LET ns == d.body.nodes
        ends == {j \in (i + 1)..Len(ns) : ns[j].tag \in {"h2", "h3", "h4"}} \cup {Len(ns) + 1}
    IN SubSeq(ns, i + 1, Min(ends) - 1)

HasDecorativeKeyword(img) ==
    \E k \in {K_icon, K_logo, K_avatar, K_button} :
        Contains(Lower(img.cls), k) \/ Contains(Lower(img.alt), k)

\* The only image of the document, in a step container or in the main-content
\* element the fallback scans: an image with an http(s) src and no dimensions.
OnlyImage(d) ==
    IF StepContainers(d) # <<>> THEN d.containers[1].imgs[1] ELSE d.body.imgs[1]

HasOnlyImage(d) ==
    /\ Len(DocImgs(d)) = 1
    /\ \/ Len(d.containers) = 1 /\ StepContainers(d) # <<>> /\ Len(d.containers[1].imgs) = 1
       \/ d.containers = <<>> /\ d.body.found /\ Len(d.body.imgs) = 1
    /\ OnlyImage(d).src.scheme \in {"http", "https"} /\ OnlyImage(d).src.netloc # ""
    /\ OnlyImage(d).width = NoDim /\ OnlyImage(d).height = NoDim

\* C18: the body-level scan of the fallback skips an image as decorative
\* exactly when container mode does: in both branches an image is left out of
\* image_urls when its class or alt text contains icon, logo, avatar or
\* button, and is collected otherwise.
C18_SameDecorativeFilter ==
    (Parsed /\ HasOnlyImage(doc)) =>
        IF HasDecorativeKeyword(OnlyImage(doc))
        THEN IsRecord => result.value.image_urls = <<>>
        ELSE IsRecord /\ result.value.image_urls = <<OnlyImage(doc).src>>

\* The text the i-th title selector yields: the stripped text (content, for
\* meta) of the first element it matches, <<>> when it matches none.
SelectorText(d, i) ==
    LET m == TitleMatches(d.titleElems, title_selectors[i]) IN
    IF m = {} THEN <<>> ELSE Strip(d.titleElems[Min(m)].text)

\* The text of the first selector, in the fixed order, whose text is not in
\* `rejected`; "Unknown Title" when there is none.
FirstTitle(d, rejected) ==
    LET ok == {i \in 1..Len(title_selectors) : SelectorText(d, i) \notin rejected} IN
    IF ok = {} THEN UnknownTitle ELSE SelectorText(d, Min(ok))

\* C19 as stated: the title of a record is the text of the first selector
\* whose element yields non-empty text, "Unknown Title" if there is none.
C19_FirstNonEmptyTitle ==
    (Parsed /\ IsRecord) => result.value.title = FirstTitle(doc, {<<>>})

\* C19 amended: the title of a record is the text of the first selector whose
\* element yields a non-empty text other than "Unknown Title"; a selector
\* whose element has an empty text, or the text "Unknown Title", does not stop
\* the chain; if none succeeds the title is "Unknown Title".
C19_FirstAcceptedTitle ==
    (Parsed /\ IsRecord) => result.value.title = FirstTitle(doc, {<<>>, UnknownTitle})

\* An h1 with a blank text before a meta og:title: the title is the content
\* of the meta element.
C19_Witness ==
    /\ Parsed /\ IsRecord
    /\ Len(doc.titleElems) = 2
    /\ doc.titleElems[1] = TitleEl("h1", "other", S_blank)
    /\ doc.titleElems[2].tag = "meta"
    /\ result.value.title = S_HOWTO

\* The first non-empty attribute of the image in the order src, data-src,
\* data-lazy-src, data-original, data-url; EmptyUrl when all are empty.
FirstSource(img) ==
    LET as == <<img.src, img.dataSrc, img.dataLazy, img.dataOrig, img.dataUrl>>
        set == {k \in 1..5 : as[k] # EmptyUrl}
    IN IF set = {} THEN EmptyUrl ELSE as[Min(set)]

\* Both a width and a height are present, both parse as integers, and at
\* least one of them is below 50.
DeclaredTooSmall(img) ==
    /\ img.width.kind = "int" /\ img.height.kind = "int"
    /\ (img.width.val < 50 \/ img.height.val < 50)

\* A document with one step container that holds one image, not decorative,
\* whose source attributes are empty or http(s) URLs.
OneContainerImage(d) ==
    /\ Len(d.containers) = 1 /\ StepContainers(d) # <<>>
    /\ Len(d.containers[1].imgs) = 1
    /\ ~HasDecorativeKeyword(d.containers[1].imgs[1])
    /\ LET img == d.containers[1].imgs[1] IN
       \A u \in {img.src, img.dataSrc, img.dataLazy, img.dataOrig, img.dataUrl} :
           u = EmptyUrl \/ (u.scheme \in {"http", "https"} /\ u.netloc \notin {"", BadNetloc})

\* C20: in container mode the source of an image is its first non-empty
\* attribute in the order src, data-src, data-lazy-src, data-original,
\* data-url; an image without any contributes nothing; an image is dropped as
\* too small exactly when width and height are both present, both parse as
\* integers and one is below 50, and is kept otherwise.
C20_SourceAndSizeRule ==
    (Parsed /\ OneContainerImage(doc)) =>
        LET img == doc.containers[1].imgs[1] IN
        IF FirstSource(img) = EmptyUrl \/ DeclaredTooSmall(img)
        THEN IsRecord => result.value.image_urls = <<>>
        ELSE IsRecord /\ result.value.image_urls = <<FirstSource(img)>>

\* Whether a text begins, without regard to case, with "step", "next",
\* "previous" or "share".
BeginsWithNavWord(t) ==
    \E w \in {W_step, W_next, <<"p","r","e","v","i","o","u","s">>, W_share} :
        StartsWith(Lower(t.head), w)

\* The chosen body texts of the step containers that do not begin with one of
\* the four words, in document order, the ones of at most 15 characters left out.
OtherContainerTexts(sc) ==
    SelectSeq([k \in 1..Len(sc) |-> ContainerText(sc[k])],
              LAMBDA t : t.len > 15 /\ ~BeginsWithNavWord(t))

\* The image URLs collected from every step container, whatever its text.
AllContainerUrls(sc, b) ==
    ContainerImages(Flatten([k \in 1..Len(sc) |-> sc[k].imgs]), b,
                    [urls |-> <<>>, raised |-> FALSE]).urls

SomeNavContainer(sc) ==
    \E k \in 1..Len(sc) : BeginsWithNavWord(ContainerText(sc[k]))

\* C21: in container mode no step of the record begins, case-insensitively,
\* with "step", "next", "previous" or "share"; a container whose chosen body
\* text begins with one of these words contributes no step, the steps being the
\* texts of the other containers, while the images of every container are
\* collected; and when no step is left while images were collected, a record
\* with an empty steps list is returned.
C21_NavPrefixContainerGivesNoStep ==
    (Parsed /\ StepContainers(doc) # <<>> /\ ParseBody(doc, base).kind # "raise") =>
        LET sc == StepContainers(doc) IN
        /\ IsRecord =>
              \A k \in 1..Len(result.value.steps) :
                  ~BeginsWithNavWord(result.value.steps[k])
        /\ (IsRecord /\ SomeNavContainer(sc)) =>
              /\ result.value.steps = OtherContainerTexts(sc)
              /\ result.value.image_urls = CleanImageUrls(AllContainerUrls(sc, base))
        /\ (SomeNavContainer(sc) /\ OtherContainerTexts(sc) = <<>>
               /\ AllContainerUrls(sc, base) # <<>>) =>
              (IsRecord /\ result.value.steps = <<>>)

\* A single container whose text "Step 1: ..." is found by a body class and
\* which holds one image: the record has no step and the image.
C21_Witness ==
    /\ Parsed /\ Len(doc.containers) = 1 /\ StepContainers(doc) # <<>>
    /\ ContainerText(doc.containers[1]) = Text(40, W_Step, 0, FALSE, TRUE)
    /\ doc.containers[1].imgs = <<Img(<<>>, <<>>, U_cdn)>>
    /\ IsRecord
    /\ result.value.steps = <<>>
    /\ result.value.image_urls = <<U_cdn>>

====
